---- MODULE Spec2Model ----
(***************************************************************************)
(* A model of scrape.py: the daily-rainfall collection loop get_rainfall   *)
(* (the Collector), the text repair of get_rainfall_day (the Fetcher) and  *)
(* the aggregation map of resample_hourly.                                 *)
(*                                                                         *)
(* Three specifications share the module:                                  *)
(*   Spec          get_rainfall driving get_rainfall_day over a date range *)
(*   SpecRepair    the strip/replace pipeline of get_rainfall_day          *)
(*   SpecResample  the construction of agg_methods in resample_hourly      *)
(***************************************************************************)
EXTENDS Integers, Sequences, FiniteSets, TLC

VARIABLES
    \* ---- get_rainfall
    pc,            \* position in get_rainfall
    start_date,    \* argument start_date (a day ordinal)
    end_date,      \* argument end_date (a day ordinal)
    dates,         \* list(rrule.rrule(DAILY, dtstart, until))
    i,             \* number of entries of dates the for loop has taken
    date,          \* loop variable
    done,          \* loop flag
    weather_data,  \* table of the last successful get_rainfall_day call
    dfs,           \* accumulated daily tables
    df,            \* pd.concat(dfs)
    csv_file,      \* content of '{station}_rainfall_hourly.csv'
    writes,        \* number of times the file has been written
    returned,      \* whether get_rainfall has returned
    result,        \* the returned table
    log,           \* history: calls of get_rainfall_day and time.sleep
    \* ---- get_rainfall_day text repair
    rpc,           \* position in the repair pipeline
    response_text, \* response.text
    data_csv,      \* the text being repaired
    \* ---- resample_hourly
    apc,           \* position in resample_hourly
    columns,       \* df.columns
    agg_methods    \* the aggregation map

vars == <<pc, start_date, end_date, dates, i, date, done, weather_data, dfs,
          df, csv_file, writes, returned, result, log,
          rpc, response_text, data_csv, apc, columns, agg_methods>>

collectorVars == <<pc, start_date, end_date, dates, i, date, done,
                   weather_data, dfs, df, csv_file, writes, returned, result,
                   log>>
repairVars == <<rpc, response_text, data_csv>>
resampleVars == <<apc, columns, agg_methods>>

(***************************************************************************)
(* Bounds.                                                                 *)
(***************************************************************************)
\* day ordinals are 1..MaxDate
MaxDate == 3
\* the remote service raises a caught connection error at most MaxFails times
MaxFails == 2
\* a raw response is made of at most MaxTokens tokens
MaxTokens == 5

Days == 1..MaxDate
\* The tables get_rainfall_day may return: a table is the sequence of its
\* rows; two rows in either order, one row, and the table with no row.
DailyTables == {<<>>, <<"r1">>, <<"r1", "r2">>, <<"r2", "r1">>}

(***************************************************************************)
(* Sequence helpers.                                                       *)
(***************************************************************************)
RECURSIVE Flatten(_)
Flatten(ss) == IF ss = <<>> THEN <<>> ELSE Head(ss) \o Flatten(Tail(ss))

RECURSIVE Reverse(_)
Reverse(s) == IF s = <<>> THEN <<>> ELSE Append(Reverse(Tail(s)), Head(s))

Min(a, b) == IF a < b THEN a ELSE b

(***************************************************************************)
(* get_rainfall                                                            *)
(***************************************************************************)
\* line 55
backoff_time == 10

\* The exception classes get_rainfall_day can raise, with their base classes:
\* the builtin ConnectionError, the ConnectionError of the HTTP library
\* (requests.exceptions.ConnectionError, raised by requests.get) and the
\* parser's error raised by pd.read_csv.
Exceptions == {"ConnectionError", "requests.ConnectionError", "ParserError"}

Bases(exc) ==
    CASE exc = "ConnectionError" ->
           {"ConnectionError", "OSError", "Exception"}
      [] exc = "requests.ConnectionError" ->
           {"requests.ConnectionError", "requests.RequestException",
            "OSError", "Exception"}
      [] exc = "ParserError" ->
           {"ParserError", "ValueError", "Exception"}

ExceptMatches_Broad(exc) == "Exception" \in Bases(exc)

\* line 64: except ConnectionError (the builtin name)
ExceptMatches(exc) == "ConnectionError" \in Bases(exc)

rrule_daily_exclusive(dtstart, until) ==
    [k \in 1..(IF until > dtstart THEN until - dtstart ELSE 0)
        |-> dtstart + k - 1]

\* line 54: every day from dtstart to until inclusive, ascending
rrule_daily(dtstart, until) ==
    [k \in 1..(IF until >= dtstart THEN until - dtstart + 1 ELSE 0)
        |-> dtstart + k - 1]

concat_reversed(tables) == Flatten(Reverse(tables))

\* line 71: pd.concat keeps the tables' order and each table's row order
concat(tables) == Flatten(tables)

CallEvent(d, res, table) ==
    [ev |-> "call", date |-> d, res |-> res, table |-> table, secs |-> 0]
SleepEvent(secs) ==
    [ev |-> "sleep", date |-> 0, res |-> "", table |-> <<>>, secs |-> secs]

\* the number of exceptions the except clause has taken so far
NumCaught(l) ==
    Cardinality({k \in 1..Len(l) :
                    /\ l[k].ev = "call"
                    /\ l[k].res \in Exceptions
                    /\ ExceptMatches(l[k].res)})

InitCollector ==
    /\ pc = "entry"
    /\ start_date \in Days
    /\ end_date \in Days
    /\ dates = <<>>
    /\ i = 0
    /\ date = 0
    /\ done = FALSE
    /\ weather_data = <<>>
    /\ dfs = <<>>
    /\ df = <<>>
    /\ csv_file = <<>>
    /\ writes = 0
    /\ returned = FALSE
    /\ result = <<>>
    /\ log = <<>>

IdleCollector ==
    /\ pc = "idle"
    /\ start_date = 0
    /\ end_date = 0
    /\ dates = <<>>
    /\ i = 0
    /\ date = 0
    /\ done = FALSE
    /\ weather_data = <<>>
    /\ dfs = <<>>
    /\ df = <<>>
    /\ csv_file = <<>>
    /\ writes = 0
    /\ returned = FALSE
    /\ result = <<>>
    /\ log = <<>>

\* lines 53-55
Enumerate ==
    /\ pc = "entry"
    /\ dfs' = <<>>
    /\ dates' = rrule_daily(start_date, end_date)
    /\ i' = 0
    /\ pc' = "for"
    /\ UNCHANGED <<start_date, end_date, date, done, weather_data, df,
                   csv_file, writes, returned, result, log>>
    /\ UNCHANGED <<repairVars, resampleVars>>

ForHasNext_SkipLast == i + 1 < Len(dates)

\* line 56: the for loop has another date to take
ForHasNext == i < Len(dates)

\* lines 56-60: take the next date, enter the while loop
ForNext ==
    /\ pc = "for"
    /\ ForHasNext
    /\ i' = i + 1
    /\ date' = dates[i + 1]
    /\ done' = FALSE
    /\ pc' = "try"
    /\ UNCHANGED <<start_date, end_date, dates, weather_data, dfs, df,
                   csv_file, writes, returned, result, log>>
    /\ UNCHANGED <<repairVars, resampleVars>>

\* line 56: the dates are exhausted
ForExit ==
    /\ pc = "for"
    /\ ~ForHasNext
    /\ pc' = "concat"
    /\ UNCHANGED <<start_date, end_date, dates, i, date, done, weather_data,
                   dfs, df, csv_file, writes, returned, result, log>>
    /\ UNCHANGED <<repairVars, resampleVars>>

\* lines 61-63: get_rainfall_day returns a table
TryOk ==
    /\ pc = "try"
    /\ \E table \in DailyTables :
          /\ weather_data' = table
          /\ log' = Append(log, CallEvent(date, "ok", table))
    /\ done' = TRUE
    /\ pc' = "append"
    /\ UNCHANGED <<start_date, end_date, dates, i, date, dfs, df, csv_file,
                   writes, returned, result>>
    /\ UNCHANGED <<repairVars, resampleVars>>

\* lines 61-64: get_rainfall_day raises; the except clause takes the
\* exception or lets it leave get_rainfall
TryRaise ==
    /\ pc = "try"
    /\ \E exc \in Exceptions :
          /\ ExceptMatches(exc) => NumCaught(log) < MaxFails
          /\ log' = Append(log, CallEvent(date, exc, <<>>))
          /\ pc' = IF ExceptMatches(exc) THEN "except" ELSE "raised"
    /\ UNCHANGED <<start_date, end_date, dates, i, date, done, weather_data,
                   dfs, df, csv_file, writes, returned, result>>
    /\ UNCHANGED <<repairVars, resampleVars>>

ExceptBody_GiveUp ==
    /\ pc = "except"
    /\ done' = TRUE
    /\ pc' = "append"
    /\ UNCHANGED <<start_date, end_date, dates, i, date, weather_data, dfs,
                   df, csv_file, writes, returned, result, log>>
    /\ UNCHANGED <<repairVars, resampleVars>>

ExceptBody_NoSleep ==
    /\ pc = "except"
    /\ pc' = IF done THEN "append" ELSE "try"
    /\ UNCHANGED <<start_date, end_date, dates, i, date, done, weather_data,
                   dfs, df, csv_file, writes, returned, result, log>>
    /\ UNCHANGED <<repairVars, resampleVars>>

\* lines 65-68, then line 60: sleep, test the flag, try the same date again
ExceptBody ==
    /\ pc = "except"
    /\ log' = Append(log, SleepEvent(backoff_time))
    /\ pc' = IF done THEN "append" ELSE "try"
    /\ UNCHANGED <<start_date, end_date, dates, i, date, done, weather_data,
                   dfs, df, csv_file, writes, returned, result>>
    /\ UNCHANGED <<repairVars, resampleVars>>

\* line 69
AppendDay ==
    /\ pc = "append"
    /\ dfs' = Append(dfs, weather_data)
    /\ pc' = "for"
    /\ UNCHANGED <<start_date, end_date, dates, i, date, done, weather_data,
                   df, csv_file, writes, returned, result, log>>
    /\ UNCHANGED <<repairVars, resampleVars>>

\* line 71: pd.concat raises ValueError on an empty list
Concat ==
    /\ pc = "concat"
    /\ IF dfs = <<>>
          THEN pc' = "raised" /\ df' = df
          ELSE pc' = "to_csv" /\ df' = concat(dfs)
    /\ UNCHANGED <<start_date, end_date, dates, i, date, done, weather_data,
                   dfs, csv_file, writes, returned, result, log>>
    /\ UNCHANGED <<repairVars, resampleVars>>

\* line 72
ToCsv ==
    /\ pc = "to_csv"
    /\ csv_file' = df
    /\ writes' = writes + 1
    /\ pc' = "return"
    /\ UNCHANGED <<start_date, end_date, dates, i, date, done, weather_data,
                   dfs, df, returned, result, log>>
    /\ UNCHANGED <<repairVars, resampleVars>>

\* line 73
Return ==
    /\ pc = "return"
    /\ returned' = TRUE
    /\ result' = df
    /\ pc' = "done"
    /\ UNCHANGED <<start_date, end_date, dates, i, date, done, weather_data,
                   dfs, df, csv_file, writes, log>>
    /\ UNCHANGED <<repairVars, resampleVars>>

get_rainfall ==
    \/ Enumerate
    \/ ForNext
    \/ ForExit
    \/ TryOk
    \/ TryRaise
    \/ ExceptBody
    \/ AppendDay
    \/ Concat
    \/ ToCsv
    \/ Return

(***************************************************************************)
(* get_rainfall_day: the repair of response.text (lines 36-45).  A text is *)
(* a sequence of characters.                                               *)
(***************************************************************************)
NL == "\n"
COMMA == ","
BR == <<"<", "b", "r", ">">>

\* The pieces raw responses are made of: a newline, a field separator, the
\* line-break tag and a data character.
Tokens == {<<NL>>, <<COMMA>>, BR, <<"x">>}
RawTexts == {Flatten(ts) : ts \in UNION {[1..n -> Tokens] : n \in 0..MaxTokens}}

StartsWith(s, p) == Len(s) >= Len(p) /\ SubSeq(s, 1, Len(p)) = p
Contains(s, p) ==
    \E k \in 1..(Len(s) - Len(p) + 1) : SubSeq(s, k, k + Len(p) - 1) = p

RECURSIVE lstrip(_, _)
lstrip(s, ch) ==
    IF s # <<>> /\ Head(s) = ch THEN lstrip(Tail(s), ch) ELSE s

RECURSIVE rstrip(_, _)
rstrip(s, ch) ==
    IF s # <<>> /\ s[Len(s)] = ch
        THEN rstrip(SubSeq(s, 1, Len(s) - 1), ch)
        ELSE s

\* str.strip(ch): every leading and every trailing ch is removed
strip(s, ch) == rstrip(lstrip(s, ch), ch)

\* str.replace(old, new): the occurrences of old, found left to right and
\* not overlapping, are replaced in one pass
RECURSIVE replace(_, _, _)
replace(s, old, new) ==
    IF Len(s) < Len(old) THEN s
    ELSE IF StartsWith(s, old)
        THEN new \o replace(SubSeq(s, Len(old) + 1, Len(s)), old, new)
        ELSE <<Head(s)>> \o replace(Tail(s), old, new)

IdleRepair ==
    /\ rpc = "idle"
    /\ response_text = <<>>
    /\ data_csv = <<>>

InitRepair ==
    /\ rpc = "response"
    /\ response_text \in RawTexts
    /\ data_csv = <<>>

\* line 37
ReadText ==
    /\ rpc = "response"
    /\ data_csv' = response_text
    /\ rpc' = "strip"
    /\ UNCHANGED response_text
    /\ UNCHANGED <<collectorVars, resampleVars>>

\* line 39
StripNewlines ==
    /\ rpc = "strip"
    /\ data_csv' = strip(data_csv, NL)
    /\ rpc' = "line_endings"
    /\ UNCHANGED response_text
    /\ UNCHANGED <<collectorVars, resampleVars>>

\* line 41
FixLineEndings ==
    /\ rpc = "line_endings"
    /\ data_csv' = replace(data_csv, <<NL>> \o BR \o <<NL>>, <<NL>>)
    /\ rpc' = "header_ending"
    /\ UNCHANGED response_text
    /\ UNCHANGED <<collectorVars, resampleVars>>

\* line 43
FixHeaderEnding ==
    /\ rpc = "header_ending"
    /\ data_csv' = replace(data_csv, BR \o <<NL>>, <<NL>>)
    /\ rpc' = "trailing_commas"
    /\ UNCHANGED response_text
    /\ UNCHANGED <<collectorVars, resampleVars>>

remove_trailing_commas_skipped(s) == s

\* line 45
remove_trailing_commas(s) == replace(s, <<COMMA, NL>>, <<NL>>)

RemoveTrailingCommas ==
    /\ rpc = "trailing_commas"
    /\ data_csv' = remove_trailing_commas(data_csv)
    /\ rpc' = "read_csv"
    /\ UNCHANGED response_text
    /\ UNCHANGED <<collectorVars, resampleVars>>

get_rainfall_day ==
    \/ ReadText
    \/ StripNewlines
    \/ FixLineEndings
    \/ FixHeaderEnding
    \/ RemoveTrailingCommas

(***************************************************************************)
(* resample_hourly: the aggregation map (lines 102-122).  A dict is a      *)
(* function from its keys.                                                 *)
(***************************************************************************)
\* lines 107-114
avg_cols == <<"DewpointF", "Humidity", "PressureIn", "TemperatureF",
              "WindDirectionDegrees", "WindSpeedMPH">>

\* The columns a station's table may have, in the order of the source's header
AllColumns == <<"TemperatureF", "DewpointF", "PressureIn",
                "WindDirectionDegrees", "WindSpeedMPH", "WindSpeedGustMPH",
                "Humidity", "HourlyPrecipIn", "Conditions", "dailyrainin",
                "SoftwareType">>
ColumnSets == SUBSET {AllColumns[k] : k \in DOMAIN AllColumns}
ColumnsOf(S) == SelectSeq(AllColumns, LAMBDA c : c \in S)

Repeat(v, n) == [k \in 1..n |-> v]

\* dict(zip(keys, values)): zip stops at the shorter sequence; a later pair
\* with the same key replaces an earlier one
dict_zip(keys, values) ==
    LET n == Min(Len(keys), Len(values))
    IN  [c \in {keys[k] : k \in 1..n} |->
            values[CHOOSE k \in 1..n :
                      /\ keys[k] = c
                      /\ \A m \in 1..n : keys[m] = c => m <= k]]

\* dict.update
dict_update(d, u) ==
    [c \in DOMAIN d \cup DOMAIN u |-> IF c \in DOMAIN u THEN u[c] ELSE d[c]]

IdleResample ==
    /\ apc = "idle"
    /\ columns = <<>>
    /\ agg_methods = <<>>

InitResample ==
    /\ apc = "entry"
    /\ columns \in {ColumnsOf(S) : S \in ColumnSets}
    /\ agg_methods = <<>>

\* line 104
DefaultFirst ==
    /\ apc = "entry"
    /\ agg_methods' = dict_zip(columns, Repeat("first", Len(columns)))
    /\ apc' = "avg"
    /\ UNCHANGED columns
    /\ UNCHANGED <<collectorVars, repairVars>>

\* line 115
UpdateMean ==
    /\ apc = "avg"
    /\ agg_methods' =
          dict_update(agg_methods,
                      dict_zip(avg_cols, Repeat("mean", Len(columns))))
    /\ apc' = "cumulative"
    /\ UNCHANGED columns
    /\ UNCHANGED <<collectorVars, repairVars>>

\* lines 118-122
UpdateCumulatives ==
    /\ apc = "cumulative"
    /\ agg_methods' =
          dict_update(agg_methods,
                      [c \in {"HourlyPrecipIn", "WindSpeedGustMPH",
                              "dailyrainin"} |->
                          IF c = "WindSpeedGustMPH" THEN "max" ELSE "last"])
    /\ apc' = "agg"
    /\ UNCHANGED columns
    /\ UNCHANGED <<collectorVars, repairVars>>

resample_hourly ==
    \/ DefaultFirst
    \/ UpdateMean
    \/ UpdateCumulatives

(***************************************************************************)
(* Specifications.                                                         *)
(***************************************************************************)
Init == InitCollector /\ IdleRepair /\ IdleResample
Next == get_rainfall
Spec == Init /\ [][Next]_vars

InitR == IdleCollector /\ InitRepair /\ IdleResample
NextR == get_rainfall_day
SpecRepair == InitR /\ [][NextR]_vars

InitA == IdleCollector /\ IdleRepair /\ InitResample
NextA == resample_hourly
SpecResample == InitA /\ [][NextA]_vars

(***************************************************************************)
(* The history of a run of get_rainfall.                                   *)
(***************************************************************************)
CallsIdx == {k \in 1..Len(log) : log[k].ev = "call"}
SleepsIdx == {k \in 1..Len(log) : log[k].ev = "sleep"}
CallsFor(d) == {k \in CallsIdx : log[k].date = d}
OkIdx(d) == {k \in CallsFor(d) : log[k].res = "ok"}
FailedIdx(d) == {k \in CallsFor(d) : log[k].res = "ConnectionError"}
FirstCall(d) == CHOOSE k \in CallsFor(d) : \A m \in CallsFor(d) : k <= m
CallDates ==
    LET calls == SelectSeq(log, LAMBDA e : e.ev = "call")
    IN  [k \in 1..Len(calls) |-> calls[k].date]
AllCallsOk == \A k \in CallsIdx : log[k].res = "ok"
LoopFinished == pc \in {"concat", "to_csv", "return", "done"}
RangeDays == start_date..end_date

(***************************************************************************)
(* C1: when get_rainfall_day raises the connection error that the except   *)
(* clause names (the builtin ConnectionError) on exactly the               *)
(* first k attempts for a date and then succeeds, get_rainfall has called  *)
(* it k+1 times for that date and slept k times, each sleep (of            *)
(* backoff_time seconds) between two consecutive attempts for the date:    *)
(* none before the first attempt, none after the successful one.           *)
(***************************************************************************)
C1_RetryThenSucceed ==
    \A d \in Days : \A j \in OkIdx(d) :
        LET k == Cardinality(FailedIdx(d))
            first == FirstCall(d)
        IN  /\ Cardinality(CallsFor(d)) = k + 1
            /\ j = first + 2 * k
            /\ \A m \in 0..(k - 1) :
                  /\ log[first + 2 * m].ev = "call"
                  /\ log[first + 2 * m].date = d
                  /\ log[first + 2 * m].res = "ConnectionError"
                  /\ log[first + 2 * m + 1].ev = "sleep"
                  /\ log[first + 2 * m + 1].secs = backoff_time
            /\ Cardinality({s \in SleepsIdx : first < s /\ s < j}) = k
            /\ first > 1 => log[first - 1].ev # "sleep"
            /\ j < Len(log) => log[j + 1].ev # "sleep"

C1_Witness ==
    \E d \in Days :
        /\ OkIdx(d) # {}
        /\ Cardinality(FailedIdx(d)) = 2
        /\ d > start_date
        /\ pc = "done"

(***************************************************************************)
(* C2: over a range with start_date <= end_date in which every call of     *)
(* get_rainfall_day succeeds, the dates called are start_date,             *)
(* start_date + 1, ... in this order, never beyond end_date, and once the  *)
(* loop has finished they are exactly the end_date - start_date + 1 days   *)
(* of the range.                                                           *)
(***************************************************************************)
C2_VisitsEveryDayOnce ==
    (start_date <= end_date /\ AllCallsOk) =>
        /\ \A k \in 1..Len(CallDates) : CallDates[k] = start_date + k - 1
        /\ Len(CallDates) <= end_date - start_date + 1
        /\ LoopFinished => Len(CallDates) = end_date - start_date + 1

C2_Witness ==
    /\ pc = "done"
    /\ AllCallsOk
    /\ start_date = 1
    /\ end_date = 3
    /\ Len(CallDates) = 3

(***************************************************************************)
(* C3: a connection error raised by the HTTP library call of               *)
(* get_rainfall_day (requests.get, line 34) is taken by the except clause  *)
(* of get_rainfall, which sleeps and retries, instead of leaving           *)
(* get_rainfall.  (The claim as stated; the code violates it.)             *)
(***************************************************************************)
C3_HttpConnectionErrorIsRetried ==
    \A k \in CallsIdx :
        log[k].res = "requests.ConnectionError" =>
            /\ pc # "raised"
            /\ k = Len(log) => pc = "except"
            /\ k < Len(log) => log[k + 1].ev = "sleep"

(***************************************************************************)
(* C4: a parse failure of get_rainfall_day on a date leaves get_rainfall:  *)
(* the failed call is the last thing get_rainfall did (no retry, no sleep, *)
(* no later date), nothing is returned and the file is not written.        *)
(***************************************************************************)
C4_ParseFailurePropagates ==
    \A k \in CallsIdx :
        log[k].res = "ParserError" =>
            /\ k = Len(log)
            /\ pc = "raised"
            /\ ~returned
            /\ writes = 0
            /\ csv_file = <<>>
            /\ Cardinality(CallsFor(log[k].date) \ FailedIdx(log[k].date)) = 1

C4_Witness ==
    /\ Len(log) > 1
    /\ log[Len(log)].ev = "call"
    /\ log[Len(log)].res = "ParserError"
    /\ log[Len(log)].date > start_date
    /\ log[Len(log)].date < end_date
    /\ pc = "raised"

(***************************************************************************)
(* C5: the file is written at most once, and only when every date of the   *)
(* range has had a successful call; get_rainfall returns only after the    *)
(* write.  While a date of the range is unfetched nothing is written and   *)
(* nothing is returned.                                                    *)
(***************************************************************************)
C5_AllOrNothing ==
    /\ writes <= 1
    /\ returned => writes = 1
    /\ (writes > 0 \/ returned \/ csv_file # <<>> \/ result # <<>>) =>
          /\ start_date <= end_date
          /\ \A d \in RangeDays : OkIdx(d) # {}
    /\ (\E d \in RangeDays : OkIdx(d) = {}) =>
          (writes = 0 /\ ~returned /\ csv_file = <<>> /\ result = <<>>)

C5_Witness ==
    /\ pc = "done"
    /\ writes = 1
    /\ returned
    /\ end_date > start_date
    /\ NumCaught(log) > 0

(***************************************************************************)
(* C6: the table get_rainfall builds, writes and returns is the tables of  *)
(* the successful calls, one per date of the range, in ascending date      *)
(* order, each with its rows in their order; failed attempts add nothing.  *)
(***************************************************************************)
TableOf(d) == log[CHOOSE k \in OkIdx(d) : TRUE].table

RECURSIVE RangeTable(_, _)
RangeTable(d, e) ==
    IF d > e THEN <<>> ELSE TableOf(d) \o RangeTable(d + 1, e)

C6_RangeTableIsConcatenation ==
    pc \in {"to_csv", "return", "done"} =>
        /\ \A d \in RangeDays : Cardinality(OkIdx(d)) = 1
        /\ \A d \in Days \ RangeDays : CallsFor(d) = {}
        /\ df = RangeTable(start_date, end_date)
        /\ writes = 1 => csv_file = RangeTable(start_date, end_date)
        /\ returned => result = RangeTable(start_date, end_date)

C6_Witness ==
    /\ pc = "done"
    /\ start_date = 1
    /\ end_date = 3
    /\ NumCaught(log) > 0
    /\ result = <<"r2", "r1", "r1", "r2", "r1">>
    /\ csv_file = result

(***************************************************************************)
(* C7: get_rainfall_day is never called for a date before every earlier    *)
(* date of the range has had a successful call; every connection error,    *)
(* however many came before, is followed by a sleep and another attempt on *)
(* the same date; and while every attempt for a date has raised the        *)
(* connection error, no later date has been called, the date has not been  *)
(* skipped, the file is unwritten and get_rainfall has not returned.       *)
(***************************************************************************)
C7_RetriesSameDateWithoutCap ==
    /\ \A k \in CallsIdx :
          /\ log[k].date \in RangeDays
          /\ \A e \in start_date..(log[k].date - 1) :
                \E m \in OkIdx(e) : m < k
    /\ \A k \in CallsIdx :
          log[k].res = "ConnectionError" =>
              /\ k = Len(log) => (pc = "except" /\ date = log[k].date)
              /\ k < Len(log) => log[k + 1].ev = "sleep"
              /\ k + 1 = Len(log) => (pc = "try" /\ date = log[k].date)
              /\ k + 1 < Len(log) =>
                    (log[k + 2].ev = "call" /\ log[k + 2].date = log[k].date)
    /\ \A d \in Days :
          (CallsFor(d) # {} /\ CallsFor(d) = FailedIdx(d)) =>
              /\ \A k \in CallsIdx : log[k].date <= d
              /\ date = d
              /\ pc \in {"except", "try"}
              /\ Len(dfs) = d - start_date
              /\ writes = 0
              /\ ~returned

C7_Witness ==
    /\ pc = "try"
    /\ date = 2
    /\ start_date = 1
    /\ end_date = 3
    /\ Cardinality(FailedIdx(2)) = 2
    /\ OkIdx(2) = {}
    /\ log[Len(log)].ev = "sleep"

(***************************************************************************)
(* C8: the repair is a no-op on clean text: a text with no leading         *)
(* line-break, no line-break tag and no doubled separators (no two         *)
(* adjacent separator characters, comma or newline) comes out of the       *)
(* repair unchanged.  (The claim as stated; the code violates it.)         *)
(***************************************************************************)
Separators == {COMMA, NL}
DoubledSeparator(t) ==
    \E k \in 1..(Len(t) - 1) : t[k] \in Separators /\ t[k + 1] \in Separators
Clean(t) ==
    /\ ~StartsWith(t, <<NL>>)
    /\ ~Contains(t, BR)
    /\ ~DoubledSeparator(t)

C8_RepairOfCleanTextIsNoOp ==
    (rpc = "read_csv" /\ Clean(response_text)) => data_csv = response_text

(***************************************************************************)
(* C9 as stated: whatever the raw text, the repaired text has no comma     *)
(* immediately followed by a newline and no line-break tag immediately     *)
(* followed by a newline.                                                  *)
(***************************************************************************)
C9_NoDanglingSeparatorLeft ==
    rpc = "read_csv" =>
        /\ ~Contains(data_csv, <<COMMA, NL>>)
        /\ ~Contains(data_csv, BR \o <<NL>>)

(***************************************************************************)
(* C9 as amended: each replacement is one left-to-right pass, so what a    *)
(* pass itself produces stays.  For a raw text with no two adjacent        *)
(* commas and no line-break tag immediately followed by a comma or by      *)
(* another line-break tag, the repaired text has no comma immediately      *)
(* followed by a newline and no line-break tag immediately followed by a   *)
(* newline.                                                                *)
(***************************************************************************)
SinglePassSuffices(t) ==
    /\ ~Contains(t, <<COMMA, COMMA>>)
    /\ ~Contains(t, BR \o <<COMMA>>)
    /\ ~Contains(t, BR \o BR)

C9_NoDanglingSeparatorLeftAfterSinglePass ==
    (rpc = "read_csv" /\ SinglePassSuffices(response_text)) =>
        /\ ~Contains(data_csv, <<COMMA, NL>>)
        /\ ~Contains(data_csv, BR \o <<NL>>)

C9_Witness ==
    /\ rpc = "read_csv"
    /\ SinglePassSuffices(response_text)
    /\ Contains(response_text, <<COMMA>> \o BR \o <<NL>> \o <<"x">>)
    /\ data_csv # response_text

(***************************************************************************)
(* C10: whatever the number of columns of the table, the aggregation map   *)
(* gives 'mean' to the columns of avg_cols, 'last' to HourlyPrecipIn and   *)
(* dailyrainin, 'max' to WindSpeedGustMPH and 'first' to every other       *)
(* column of the table.  (The claim as stated; the code violates it.)      *)
(***************************************************************************)
ExpectedMethod(c) ==
    IF c \in {avg_cols[k] : k \in DOMAIN avg_cols} THEN "mean"
    ELSE IF c \in {"HourlyPrecipIn", "dailyrainin"} THEN "last"
    ELSE IF c = "WindSpeedGustMPH" THEN "max"
    ELSE "first"

C10_AggregationMap ==
    apc = "agg" =>
        \A k \in DOMAIN columns :
            /\ columns[k] \in DOMAIN agg_methods
            /\ agg_methods[columns[k]] = ExpectedMethod(columns[k])

====
